---- MODULE Spec2Model ----
(***************************************************************************)
(* The iCalendar calendar platform (homeassistant/components/icalendar/    *)
(* calendar.py): ICalendarCalendarData, its static helpers, update and     *)
(* async_get_events, and the entity ICalendarCalendarEventDevice; and the  *)
(* ping component's sequence numbers (homeassistant/components/ping).      *)
(*                                                                         *)
(* Time is counted in minutes.  A Python value is a record tagged by its   *)
(* type in field t; an iCalendar event is a record whose DOMAIN is the set *)
(* of properties present on it ("X" in event  is  "X" \in DOMAIN event),   *)
(* each property holding the value of its .dt (dates, durations) or the    *)
(* text itself.  A raised exception is the value Raised(name).             *)
(***************************************************************************)
EXTENDS Integers, Sequences, FiniteSets, TLC

VARIABLES
    search,           \* ICalendarCalendarData.search
    include_all_day,  \* ICalendarCalendarData.include_all_day
    event,            \* ICalendarCalendarData.event
    last_call,        \* the Throttle's time of the last completed update
    now,              \* the clock, a UTC instant
    doc,              \* what icalendar_get_events returns at present
    call,             \* the most recent call: its name, outcome, locals, result
    ent_event,        \* ICalendarCalendarEventDevice._event
    offset_reached,   \* ICalendarCalendarEventDevice._offset_reached
    ping_data,        \* hass.data[DOMAIN] of the ping component
    returned          \* the ids async_get_next_ping_id returned, in order

entity_vars == <<ent_event, offset_reached>>
ping_vars == <<ping_data, returned>>

vars ==
    <<search, include_all_day, event, last_call, now, doc, call, entity_vars,
      ping_vars>>

-----------------------------------------------------------------------------
(* Bounds of the model *)

MaxEvents == 2
MaxTextLen == 2
MaxPatternLen == 2
MaxPingSpan == 5
MaxCalls == 40

-----------------------------------------------------------------------------
(* Python values *)

None == [t |-> "None"]
Bool(b) == [t |-> "bool", b |-> b]
Str(s) == [t |-> "str", s |-> s]
Date(d) == [t |-> "date", day |-> d]
Naive(m) == [t |-> "datetime", min |-> m, aware |-> FALSE, off |-> 0]
Aware(m, off) == [t |-> "datetime", min |-> m, aware |-> TRUE, off |-> off]
TimeDelta(m) == [t |-> "timedelta", min |-> m]
MatchObject == [t |-> "Match"]
Raised(exc) == [t |-> "raise", exc |-> exc]

IsRaised(v) == "t" \in DOMAIN v /\ v.t = "raise"

Truthy(v) ==
    IF "t" \notin DOMAIN v THEN DOMAIN v # {}
    ELSE CASE v.t = "None" -> FALSE
           [] v.t = "bool" -> v.b
           [] v.t = "str" -> v.s # <<>>
           [] OTHER -> TRUE

\* x and y, x or y: the operand that decides is the value
PyAnd(x, y) == IF Truthy(x) THEN y ELSE x
PyOr(x, y) == IF Truthy(x) THEN x ELSE y

DAY == 1440
MIN_TIME_BETWEEN_UPDATES == 15
\* dt.DEFAULT_TIME_ZONE, as its offset from UTC
DEFAULT_TIME_ZONE == 60

\* an aware datetime's instant
Utc(x) == x.min - x.off

\* date + timedelta keeps the whole days; datetime + timedelta the minutes
PyAdd(x, td) ==
    IF x.t = "date" THEN Date(x.day + (td.min \div DAY))
    ELSE [x EXCEPT !.min = x.min + td.min]

isinstance_datetime(obj) == obj.t = "datetime"

\* event.get(key)
get(obj, key) == IF key \in DOMAIN obj THEN obj[key] ELSE None

\* .isoformat(): YYYY-MM-DD, YYYY-MM-DDTHH:MM:SS, YYYY-MM-DDTHH:MM:SS+HH:MM
isoformat(obj) ==
    IF obj.t = "date" THEN Str(<<"date", obj.day>>)
    ELSE IF ~obj.aware THEN Str(<<"datetime", obj.min \div DAY, obj.min % DAY>>)
    ELSE Str(<<"datetime", obj.min \div DAY, obj.min % DAY, obj.off>>)

-----------------------------------------------------------------------------
(* re.compile and Pattern.match on patterns over the tokens *)
(* a b . * ^ and an unclosed ( *)

Chars == {"a", "b"}
Tokens == {"a", "b", ".", "*", "^", "("}

re_compile_ok(p) ==
    \A i \in 1..Len(p) :
        /\ p[i] # "("
        /\ p[i] = "*" => (i > 1 /\ p[i - 1] \in {"a", "b", "."})

AtomMatches(a, c) == a = "." \/ a = c

\* the positions of s at which a match of p[i..] begun at position j can end
RECURSIVE Ends(_, _, _, _)
Ends(p, i, s, j) ==
    IF i > Len(p) THEN {j}
    ELSE IF p[i] = "^" THEN (IF j = 0 THEN Ends(p, i + 1, s, j) ELSE {})
    ELSE IF i < Len(p) /\ p[i + 1] = "*"
         THEN Ends(p, i + 2, s, j)
              \cup (IF j < Len(s) /\ AtomMatches(p[i], s[j + 1])
                    THEN Ends(p, i, s, j + 1) ELSE {})
    ELSE IF j < Len(s) /\ AtomMatches(p[i], s[j + 1])
         THEN Ends(p, i + 1, s, j + 1) ELSE {}

\* pattern.match(string): anchored at the start, free at the end
re_match(p, str) == IF Ends(p, 1, str.s, 0) # {} THEN MatchObject ELSE None

-----------------------------------------------------------------------------
(* The static methods of ICalendarCalendarData *)

\* datetime.combine(date, time.min)
combine_min(obj) == Naive(obj.day * DAY)

\* dt.as_local: the value in the configured zone, a zoneless one read as
\* local wall-clock time
as_local(obj) ==
    IF obj.aware THEN Aware(Utc(obj) + DEFAULT_TIME_ZONE, DEFAULT_TIME_ZONE)
    ELSE Aware(obj.min, DEFAULT_TIME_ZONE)

to_datetime(obj) ==
    IF isinstance_datetime(obj)
    THEN IF ~obj.aware THEN Aware(obj.min, DEFAULT_TIME_ZONE) ELSE obj
    ELSE as_local(combine_min(obj))

\* the duration looked at before the explicit end
get_end_date_duration_first(obj) ==
    IF "DTSTART" \in DOMAIN obj /\ "DURATION" \in DOMAIN obj
    THEN PyAdd(obj.DTSTART, obj.DURATION)
    ELSE IF "DTEND" \in DOMAIN obj THEN obj.DTEND
    ELSE IF "DTSTART" \notin DOMAIN obj THEN Raised("AttributeError")
    ELSE PyAdd(obj.DTSTART, TimeDelta(DAY))

get_end_date(obj) ==
    IF "DTEND" \in DOMAIN obj THEN obj.DTEND
    ELSE IF "DTSTART" \notin DOMAIN obj THEN Raised("AttributeError")
    ELSE IF "DURATION" \in DOMAIN obj THEN PyAdd(obj.DTSTART, obj.DURATION)
    ELSE PyAdd(obj.DTSTART, TimeDelta(DAY))

MatchField(ev, pattern, key) ==
    PyAnd(Bool(key \in DOMAIN ev),
          IF key \in DOMAIN ev THEN re_match(pattern, ev[key]) ELSE None)

\* a and (b or c) and (d or e) and f: a missing SUMMARY decides
is_matching_chained(ev, srch) ==
    IF srch = None THEN Bool(TRUE)
    ELSE IF ~re_compile_ok(srch.s) THEN Raised("re.error")
    ELSE PyAnd(Bool("SUMMARY" \in DOMAIN ev),
               PyAnd(PyOr(MatchField(ev, srch.s, "SUMMARY"),
                          Bool("LOCATION" \in DOMAIN ev)),
                     PyAnd(PyOr(MatchField(ev, srch.s, "LOCATION"),
                                Bool("DESCRIPTION" \in DOMAIN ev)),
                           MatchField(ev, srch.s, "DESCRIPTION"))))

is_matching(ev, srch) ==
    IF srch = None THEN Bool(TRUE)
    ELSE IF ~re_compile_ok(srch.s) THEN Raised("re.error")
    ELSE PyOr(PyOr(MatchField(ev, srch.s, "SUMMARY"),
                   MatchField(ev, srch.s, "LOCATION")),
              MatchField(ev, srch.s, "DESCRIPTION"))

\* isinstance(..., date): a datetime is a date too
is_all_day_date(ev) ==
    IF "DTSTART" \notin DOMAIN ev THEN Raised("AttributeError")
    ELSE Bool(~(ev.DTSTART.t \in {"date", "datetime"}))

is_all_day(ev) ==
    IF "DTSTART" \notin DOMAIN ev THEN Raised("AttributeError")
    ELSE Bool(~isinstance_datetime(ev.DTSTART))

\* dt.now(): the clock as an aware local datetime
dt_now(clock) == Aware(clock + DEFAULT_TIME_ZONE, DEFAULT_TIME_ZONE)

\* an event that ends now is not over yet
is_over_strict(ev, clock) ==
    IF IsRaised(get_end_date(ev)) THEN get_end_date(ev)
    ELSE Bool(Utc(dt_now(clock)) > Utc(to_datetime(get_end_date(ev))))

is_over(ev, clock) ==
    IF IsRaised(get_end_date(ev)) THEN get_end_date(ev)
    ELSE Bool(Utc(dt_now(clock)) >= Utc(to_datetime(get_end_date(ev))))

get_hass_date(obj) ==
    IF isinstance_datetime(obj) THEN [dateTime |-> isoformat(obj)]
    ELSE [date |-> isoformat(obj)]

get_attr_value(obj, attribute) ==
    IF attribute \in DOMAIN obj THEN obj[attribute] ELSE None

-----------------------------------------------------------------------------
(* ICalendarCalendarData.update *)

SortKey(x) == Utc(to_datetime(x.DTSTART))

\* a sort that is not stable: x goes before the elements of equal key
RECURSIVE Insert_unstable(_, _)
Insert_unstable(s, x) ==
    IF s = <<>> THEN <<x>>
    ELSE IF SortKey(Head(s)) < SortKey(x)
         THEN <<Head(s)>> \o Insert_unstable(Tail(s), x)
    ELSE <<x>> \o s

\* list.sort is stable: x goes after every element whose key is not greater
RECURSIVE Insert(_, _)
Insert(s, x) ==
    IF s = <<>> THEN <<x>>
    ELSE IF SortKey(Head(s)) <= SortKey(x) THEN <<Head(s)>> \o Insert(Tail(s), x)
    ELSE <<x>> \o s

RECURSIVE SortByStart(_)
SortByStart(s) ==
    IF s = <<>> THEN <<>>
    ELSE Insert(SortByStart(SubSeq(s, 1, Len(s) - 1)), s[Len(s)])

\* x["DTSTART"] raises KeyError; the key is taken of every element
sort_raises(events) ==
    \E i \in 1..Len(events) : "DTSTART" \notin DOMAIN events[i]

\* events.sort(key=lambda x: self.to_datetime(x["DTSTART"].dt))
sort_events(events) == SortByStart(events)

\* the generator's condition, its operands evaluated left to right
Condition(ev, srch, iad, clock) ==
    LET m == is_matching(ev, srch)
        a == PyOr(Bool(~Truthy(is_all_day(ev))), Bool(iad))
    IN  IF IsRaised(m) THEN m
        ELSE IF ~Truthy(m) THEN m
        ELSE IF ~Truthy(a) THEN a
        ELSE Bool(~Truthy(is_over(ev, clock)))

\* next((event for event in events if ...), None)
RECURSIVE NextMatching(_, _, _, _, _)
NextMatching(events, i, srch, iad, clock) ==
    IF i > Len(events) THEN None
    ELSE LET c == Condition(events[i], srch, iad, clock)
         IN  IF IsRaised(c) THEN c
             ELSE IF Truthy(c) THEN events[i]
             ELSE NextMatching(events, i + 1, srch, iad, clock)

EventDict(ev) ==
    [summary |-> get(ev, "SUMMARY"),
     start |-> get_hass_date(get(ev, "DTSTART")),
     end |-> get_hass_date(get_end_date(ev)),
     location |-> get_attr_value(ev, "LOCATION"),
     description |-> get_attr_value(ev, "DESCRIPTION")]

\* self.event = None set before the events are read
update_body_reset(self_event, events, srch, iad, clock) ==
    LET found == IF sort_raises(events) THEN Raised("KeyError")
                 ELSE NextMatching(sort_events(events), 1, srch, iad, clock)
    IN  IF IsRaised(found)
        THEN [outcome |-> "raised", found |-> found, event |-> None]
        ELSE IF found = None
        THEN [outcome |-> "ok", found |-> None, event |-> None]
        ELSE [outcome |-> "ok", found |-> found, event |-> EventDict(found)]

\* no event found: the event of the call before is kept
update_body_keep(self_event, events, srch, iad, clock) ==
    LET found == IF sort_raises(events) THEN Raised("KeyError")
                 ELSE NextMatching(sort_events(events), 1, srch, iad, clock)
    IN  IF IsRaised(found)
        THEN [outcome |-> "raised", found |-> found, event |-> self_event]
        ELSE IF found = None
        THEN [outcome |-> "ok", found |-> None, event |-> self_event]
        ELSE [outcome |-> "ok", found |-> found, event |-> EventDict(found)]

\* the body of update: the outcome, the local event and the new self.event
update_body(self_event, events, srch, iad, clock) ==
    LET found == IF sort_raises(events) THEN Raised("KeyError")
                 ELSE NextMatching(sort_events(events), 1, srch, iad, clock)
    IN  IF IsRaised(found)
        THEN [outcome |-> "raised", found |-> found, event |-> self_event]
        ELSE IF found = None
        THEN [outcome |-> "ok", found |-> None, event |-> None]
        ELSE [outcome |-> "ok", found |-> found, event |-> EventDict(found)]

-----------------------------------------------------------------------------
(* ICalendarCalendarData.async_get_events *)

parse_date(str) == Date(str.s[2])

parse_datetime(str) ==
    IF Len(str.s) = 4 THEN Aware(str.s[2] * DAY + str.s[3], str.s[4])
    ELSE Naive(str.s[2] * DAY + str.s[3])

\* homeassistant.components.calendar.get_date: the local datetime of a
\* {"date": ...} or {"dateTime": ...} value
get_date(date) ==
    IF "date" \in DOMAIN date THEN as_local(combine_min(parse_date(date.date)))
    ELSE as_local(parse_datetime(date.dateTime))

\* the record of update, with the uid: start and end left as they are
EventData_tagged(ev) ==
    IF "DTSTART" \notin DOMAIN ev THEN Raised("AttributeError")
    ELSE [uid |-> IF "UID" \in DOMAIN ev THEN get(ev, "UID") ELSE None,
          summary |-> get(ev, "SUMMARY"),
          start |-> get_hass_date(get(ev, "DTSTART")),
          end |-> get_hass_date(get_end_date(ev)),
          location |-> get_attr_value(ev, "LOCATION"),
          description |-> get_attr_value(ev, "DESCRIPTION")]

\* one turn of the loop: the record appended, or the exception
EventData(ev) ==
    IF "DTSTART" \notin DOMAIN ev THEN Raised("AttributeError")
    ELSE [uid |-> IF "UID" \in DOMAIN ev THEN get(ev, "UID") ELSE None,
          summary |-> get(ev, "SUMMARY"),
          start |-> isoformat(get_date(get_hass_date(get(ev, "DTSTART")))),
          end |-> isoformat(get_date(get_hass_date(get_end_date(ev)))),
          location |-> get_attr_value(ev, "LOCATION"),
          description |-> get_attr_value(ev, "DESCRIPTION")]

get_events_body(events) ==
    IF \E i \in 1..Len(events) : IsRaised(EventData(events[i]))
    THEN [outcome |-> "raised", ret |-> <<>>]
    ELSE [outcome |-> "ok", ret |-> [i \in 1..Len(events) |-> EventData(events[i])]]

-----------------------------------------------------------------------------
(* The calendar the platform reads, the clock, and the configuration *)

\* local wall-clock minute m of day d
At(d, m) == d * DAY + m

Clock == {At(1, 540) - DEFAULT_TIME_ZONE,
          At(1, 555) - DEFAULT_TIME_ZONE,
          At(1, 660) - DEFAULT_TIME_ZONE}

Searches == {None, Str(<<"a">>), Str(<<"(">>)}

Occurrences ==
    { [SUMMARY |-> Str(<<"a">>), DTSTART |-> Date(1), UID |-> Str(<<"u">>)],
      [SUMMARY |-> Str(<<"a", "b">>), DTSTART |-> Naive(At(1, 600)),
       DURATION |-> TimeDelta(60)],
      [LOCATION |-> Str(<<"a">>), DTSTART |-> Aware(At(1, 540), 0),
       DTEND |-> Aware(At(1, 660), 0), UID |-> Str(<<"v">>)],
      [DTSTART |-> Naive(At(1, 480)), DTEND |-> Naive(At(1, 540)),
       DURATION |-> TimeDelta(600)],
      [SUMMARY |-> Str(<<"a">>), DTEND |-> Date(2)],
      [SUMMARY |-> Str(<<"b", "a">>), DESCRIPTION |-> Str(<<"b">>),
       DTSTART |-> Date(0), DURATION |-> TimeDelta(2 * DAY + 60)],
      [SUMMARY |-> Str(<<"b">>), DTSTART |-> Naive(At(1, 570)),
       DTEND |-> Date(2)] }

\* no call: fn the method, outcome how it ended, before the self.event it
\* found, found its local event, ret what it returned
Idle ==
    [fn |-> "idle", outcome |-> "none", before |-> None, found |-> None,
     ret |-> <<>>]

\* ICalendarCalendarEventDevice.__init__
InitEntity == ent_event = None /\ offset_reached = FALSE

\* the ping component before async_setup
InitPing == ping_data = None /\ returned = <<>>

Init ==
    /\ search \in Searches
    /\ include_all_day \in BOOLEAN
    /\ event = None
    /\ last_call = None
    /\ now \in Clock
    /\ doc = <<>>
    /\ call = Idle
    /\ InitEntity
    /\ InitPing

-----------------------------------------------------------------------------
(* Actions *)

\* the calendar gains an occurrence
Publish(ev) ==
    /\ Len(doc) < MaxEvents
    /\ doc' = Append(doc, ev)
    /\ call' = Idle
    /\ UNCHANGED <<search, include_all_day, event, last_call, now>>
    /\ UNCHANGED <<entity_vars, ping_vars>>

\* the calendar loses its first occurrence
Retract ==
    /\ doc # <<>>
    /\ doc' = Tail(doc)
    /\ call' = Idle
    /\ UNCHANGED <<search, include_all_day, event, last_call, now>>
    /\ UNCHANGED <<entity_vars, ping_vars>>

Tick(t) ==
    /\ t > now
    /\ now' = t
    /\ call' = Idle
    /\ UNCHANGED <<search, include_all_day, event, last_call, doc>>
    /\ UNCHANGED <<entity_vars, ping_vars>>

\* Throttle: the method runs when it never ran or ran long enough ago
Throttled == last_call # None /\ ~(now - last_call.utc > MIN_TIME_BETWEEN_UPDATES)

Update ==
    IF Throttled
    THEN /\ call' = [Idle EXCEPT !.fn = "update", !.outcome = "throttled",
                                 !.before = event]
         /\ UNCHANGED <<search, include_all_day, event, last_call, now, doc>>
         /\ UNCHANGED <<entity_vars, ping_vars>>
    ELSE LET r == update_body(event, doc, search, include_all_day, now)
         IN  /\ event' = r.event
             /\ last_call' = IF r.outcome = "ok"
                             THEN [t |-> "datetime", utc |-> now]
                             ELSE last_call
             /\ call' = [Idle EXCEPT !.fn = "update", !.outcome = r.outcome,
                                     !.before = event, !.found = r.found]
             /\ UNCHANGED <<search, include_all_day, now, doc>>
             /\ UNCHANGED <<entity_vars, ping_vars>>

GetEvents ==
    LET r == get_events_body(doc)
    IN  /\ call' = [Idle EXCEPT !.fn = "async_get_events",
                                !.outcome = r.outcome, !.ret = r.ret]
        /\ UNCHANGED <<search, include_all_day, event, last_call, now, doc>>
        /\ UNCHANGED <<entity_vars, ping_vars>>

Next ==
    \/ \E ev \in Occurrences : Publish(ev)
    \/ Retract
    \/ \E t \in Clock : Tick(t)
    \/ Update
    \/ GetEvents

Spec == Init /\ [][Next]_vars

-----------------------------------------------------------------------------
(* The static methods applied to one object: the inputs are drawn by the   *)
(* initial state, an action applies a method and records what it returns   *)

Seqs(S, n) == UNION {[1..k -> S] : k \in 0..n}

Texts == {Str(s) : s \in Seqs(Chars, MaxTextLen)}
Patterns == {None} \cup {Str(p) : p \in Seqs(Tokens, MaxPatternLen)}

TextKeys == {"SUMMARY", "LOCATION", "DESCRIPTION"}
TextObjs == UNION {[K -> Texts] : K \in SUBSET TextKeys}

Starts == {Date(0), Date(1), Naive(At(1, 600)), Aware(At(1, 540), 0)}
Ends_ == {Date(1), Date(2), Naive(At(1, 660)), Aware(At(1, 600), 0)}
Durations == {TimeDelta(60), TimeDelta(DAY + 60)}

TimedObjs ==
    {[DTSTART |-> s] : s \in Starts}
    \cup {[DTEND |-> e] : e \in Ends_}
    \cup {[DURATION |-> d] : d \in Durations}
    \cup {[DTSTART |-> s, DTEND |-> e] : s \in Starts, e \in Ends_}
    \cup {[DTSTART |-> s, DURATION |-> d] : s \in Starts, d \in Durations}
    \cup {[DTEND |-> e, DURATION |-> d] : e \in Ends_, d \in Durations}
    \cup {[DTSTART |-> s, DTEND |-> e, DURATION |-> d] :
              s \in Starts, e \in Ends_, d \in Durations}

\* is_matching on every object and pattern
InitMatching ==
    /\ doc \in {<<o>> : o \in TextObjs}
    /\ search \in Patterns
    /\ now = At(1, 540) - DEFAULT_TIME_ZONE
    /\ include_all_day = FALSE
    /\ event = None
    /\ last_call = None
    /\ call = Idle
    /\ InitEntity
    /\ InitPing

\* the methods that read the dates, on every object and clock
InitDates ==
    /\ doc \in {<<o>> : o \in TimedObjs}
    /\ search = None
    /\ now \in Clock
    /\ include_all_day = FALSE
    /\ event = None
    /\ last_call = None
    /\ call = Idle
    /\ InitEntity
    /\ InitPing

Returned(fn, v) ==
    IF IsRaised(v) THEN [Idle EXCEPT !.fn = fn, !.outcome = "raised", !.ret = v]
    ELSE [Idle EXCEPT !.fn = fn, !.outcome = "ok", !.ret = v]

Call_is_matching ==
    /\ call = Idle
    /\ call' = Returned("is_matching", is_matching(doc[1], search))
    /\ UNCHANGED <<search, include_all_day, event, last_call, now, doc>>
    /\ UNCHANGED <<entity_vars, ping_vars>>

Call_get_end_date ==
    /\ call = Idle
    /\ call' = Returned("get_end_date", get_end_date(doc[1]))
    /\ UNCHANGED <<search, include_all_day, event, last_call, now, doc>>
    /\ UNCHANGED <<entity_vars, ping_vars>>

Call_is_all_day ==
    /\ call = Idle
    /\ call' = Returned("is_all_day", is_all_day(doc[1]))
    /\ UNCHANGED <<search, include_all_day, event, last_call, now, doc>>
    /\ UNCHANGED <<entity_vars, ping_vars>>

Call_is_over ==
    /\ call = Idle
    /\ call' = Returned("is_over", is_over(doc[1], now))
    /\ UNCHANGED <<search, include_all_day, event, last_call, now, doc>>
    /\ UNCHANGED <<entity_vars, ping_vars>>

SpecMatching == InitMatching /\ [][Call_is_matching]_vars

NextDates ==
    \/ Call_get_end_date
    \/ Call_is_all_day
    \/ Call_is_over

SpecDates == InitDates /\ [][NextDates]_vars

-----------------------------------------------------------------------------
(* ICalendarCalendarEventDevice.update *)

\* an offset tag in a summary, OFFSET followed by a time: one symbol of the
\* text
OffsetTags == {"!!-30"}
OffsetMinutes(tag) == IF tag = "!!-30" THEN 0 - 30 ELSE 0

RECURSIVE Without(_, _)
Without(s, S) ==
    IF s = <<>> THEN <<>>
    ELSE IF Head(s) \in S THEN Without(Tail(s), S)
    ELSE <<Head(s)>> \o Without(Tail(s), S)

\* homeassistant.components.calendar.calculate_offset: the tag is taken out
\* of the summary and kept as offset_time; a summary of None is searched
\* as it is
calculate_offset(ev) ==
    IF ev.summary = None THEN Raised("TypeError")
    ELSE LET tags == {i \in 1..Len(ev.summary.s) : ev.summary.s[i] \in OffsetTags}
         IN  IF tags = {}
             THEN [summary |-> ev.summary, start |-> ev.start, end |-> ev.end,
                   location |-> ev.location, description |-> ev.description,
                   offset_time |-> TimeDelta(0)]
             ELSE LET first == CHOOSE i \in tags : \A j \in tags : i <= j
                  IN  [summary |-> Str(Without(ev.summary.s, {ev.summary.s[first]})),
                       start |-> ev.start, end |-> ev.end,
                       location |-> ev.location, description |-> ev.description,
                       offset_time |-> TimeDelta(OffsetMinutes(ev.summary.s[first]))]

\* homeassistant.components.calendar.is_offset_reached
is_offset_reached(ev, clock) ==
    IF ev.offset_time = TimeDelta(0) THEN FALSE
    ELSE Utc(get_date(ev.start)) + ev.offset_time.min <= clock

\* no event: _offset_reached is set to False with _event
entity_update_body_reset(self_event, self_reached, data_event, clock) ==
    IF data_event = None
    THEN [outcome |-> "ok", event |-> None, offset_reached |-> FALSE]
    ELSE LET ev == calculate_offset(data_event)
         IN  IF IsRaised(ev)
             THEN [outcome |-> "raised", event |-> self_event,
                   offset_reached |-> self_reached]
             ELSE [outcome |-> "ok", event |-> ev,
                   offset_reached |-> is_offset_reached(ev, clock)]

\* update after self.data.update(): the new _event and _offset_reached
entity_update_body(self_event, self_reached, data_event, clock) ==
    IF data_event = None
    THEN [outcome |-> "ok", event |-> None, offset_reached |-> self_reached]
    ELSE LET ev == calculate_offset(data_event)
         IN  IF IsRaised(ev)
             THEN [outcome |-> "raised", event |-> self_event,
                   offset_reached |-> self_reached]
             ELSE [outcome |-> "ok", event |-> ev,
                   offset_reached |-> is_offset_reached(ev, clock)]

\* self.data.update(): throttled, or the body
data_update ==
    IF Throttled
    THEN [outcome |-> "throttled", found |-> None, event |-> event,
          last_call |-> last_call]
    ELSE LET r == update_body(event, doc, search, include_all_day, now)
         IN  [outcome |-> r.outcome, found |-> r.found, event |-> r.event,
              last_call |-> IF r.outcome = "ok"
                            THEN [t |-> "datetime", utc |-> now]
                            ELSE last_call]

EntityUpdate ==
    LET d == data_update
        e == entity_update_body(ent_event, offset_reached, d.event, now)
    IN  /\ event' = d.event
        /\ last_call' = d.last_call
        /\ IF d.outcome = "raised"
           THEN /\ UNCHANGED entity_vars
                /\ call' = [Idle EXCEPT !.fn = "entity_update",
                                        !.outcome = "raised", !.before = event,
                                        !.found = d.found]
           ELSE /\ ent_event' = e.event
                /\ offset_reached' = e.offset_reached
                /\ call' = [Idle EXCEPT !.fn = "entity_update",
                                        !.outcome = e.outcome, !.before = event,
                                        !.found = d.found]
        /\ UNCHANGED <<search, include_all_day, now, doc, ping_vars>>

EntityOccurrences ==
    { [SUMMARY |-> Str(<<"a", "!!-30">>), DTSTART |-> Naive(At(1, 570)),
       DURATION |-> TimeDelta(60)],
      [SUMMARY |-> Str(<<"b", "!!-30">>), DTSTART |-> Naive(At(1, 585)),
       DTEND |-> Naive(At(1, 720))],
      [SUMMARY |-> Str(<<"a", "b">>), DTSTART |-> Naive(At(1, 600)),
       DURATION |-> TimeDelta(60)],
      [LOCATION |-> Str(<<"a">>), DTSTART |-> Aware(At(1, 540), 0),
       DTEND |-> Aware(At(1, 660), 0), UID |-> Str(<<"v">>)],
      [SUMMARY |-> Str(<<"a">>), DTEND |-> Date(2)] }

NextEntity ==
    \/ \E ev \in EntityOccurrences : Publish(ev)
    \/ Retract
    \/ \E t \in Clock : Tick(t)
    \/ EntityUpdate

SpecEntity == Init /\ [][NextEntity]_vars

-----------------------------------------------------------------------------
(* The ping component *)

\* .const, which the component imports: the first id, and the last one,
\* here MaxPingSpan ids further
DEFAULT_START_ID == 129
MAX_PING_ID == DEFAULT_START_ID + MaxPingSpan

\* _can_use_icmp_lib_with_privilege: True, False or None by the two probes
can_use_icmp_lib_with_privilege(privileged_ok, unprivileged_ok) ==
    IF privileged_ok THEN Bool(TRUE)
    ELSE IF unprivileged_ok THEN Bool(FALSE)
    ELSE None

\* the id grows past MAX_PING_ID
next_ping_id_no_wrap(current_id) == current_id + 1

\* async_get_next_ping_id: the id it stores and returns
next_ping_id(current_id) ==
    IF current_id = MAX_PING_ID THEN DEFAULT_START_ID ELSE current_id + 1

async_setup(privileged_ok, unprivileged_ok) ==
    /\ ping_data = None
    /\ ping_data' =
           [PING_PRIVS |->
                can_use_icmp_lib_with_privilege(privileged_ok, unprivileged_ok),
            PING_ID |-> DEFAULT_START_ID]
    /\ UNCHANGED <<search, include_all_day, event, last_call, now, doc, call>>
    /\ UNCHANGED <<entity_vars, returned>>

async_get_next_ping_id ==
    /\ ping_data # None
    /\ Len(returned) < MaxCalls
    /\ ping_data' = [ping_data EXCEPT !.PING_ID = next_ping_id(ping_data.PING_ID)]
    /\ returned' = Append(returned, next_ping_id(ping_data.PING_ID))
    /\ UNCHANGED <<search, include_all_day, event, last_call, now, doc, call>>
    /\ UNCHANGED entity_vars

InitPingComponent ==
    /\ search = None
    /\ include_all_day = FALSE
    /\ event = None
    /\ last_call = None
    /\ now = At(1, 540) - DEFAULT_TIME_ZONE
    /\ doc = <<>>
    /\ call = Idle
    /\ InitEntity
    /\ InitPing

NextPing ==
    \/ \E privileged_ok, unprivileged_ok \in BOOLEAN :
           async_setup(privileged_ok, unprivileged_ok)
    \/ async_get_next_ping_id

SpecPing == InitPingComponent /\ [][NextPing]_vars

-----------------------------------------------------------------------------
(* Properties *)

\* the instant a start or end value stands for: a date is local midnight, a
\* zoneless datetime is local wall-clock time, a zoned one is itself
InstantOf(v) ==
    IF v.t = "date" THEN v.day * DAY - DEFAULT_TIME_ZONE
    ELSE IF v.aware THEN v.min - v.off
    ELSE v.min - DEFAULT_TIME_ZONE

\* DTEND, else DTSTART + DURATION, else DTSTART + 1 day
EndOf(ev) ==
    IF "DTEND" \in DOMAIN ev THEN ev.DTEND
    ELSE IF "DURATION" \in DOMAIN ev THEN PyAdd(ev.DTSTART, ev.DURATION)
    ELSE IF ev.DTSTART.t = "date" THEN Date(ev.DTSTART.day + 1)
    ELSE [ev.DTSTART EXCEPT !.min = ev.DTSTART.min + DAY]

\* update ran its body to the end
UpdateDone == call.fn = "update" /\ call.outcome = "ok"

\* the three conditions of the selection
Qualifies(ev) ==
    /\ Truthy(is_matching(ev, search))
    /\ ~Truthy(is_all_day(ev)) \/ include_all_day
    /\ ~Truthy(is_over(ev, now))

\* doc[i] comes before doc[j] in the sorted list
Before(i, j) ==
    \/ InstantOf(doc[i].DTSTART) < InstantOf(doc[j].DTSTART)
    \/ InstantOf(doc[i].DTSTART) = InstantOf(doc[j].DTSTART) /\ i <= j

\* C1: after update the selected event is the first qualifying one in
\* ascending order of start, input order deciding among equal starts, and
\* the stored event is None exactly when no event qualifies
C1_SelectsFirstQualifying ==
    UpdateDone =>
        /\ (event = None) <=> ~(\E i \in 1..Len(doc) : Qualifies(doc[i]))
        /\ (\E i \in 1..Len(doc) : Qualifies(doc[i])) =>
               \E i \in 1..Len(doc) :
                   /\ Qualifies(doc[i])
                   /\ \A j \in 1..Len(doc) : Qualifies(doc[j]) => Before(i, j)
                   /\ call.found = doc[i]
                   /\ event = EventDict(doc[i])

\* a later event of the list was selected over an earlier qualifying one
C1_Witness ==
    /\ UpdateDone
    /\ Len(doc) = 2
    /\ Qualifies(doc[1])
    /\ call.found = doc[2]
    /\ event = EventDict(doc[2])

\* C2: the event update selects is not over (now < its end), is_over is
\* true iff now >= the end, and when every event's end is <= now the
\* stored event is None
C2_NeverSelectsOver ==
    UpdateDone =>
        /\ call.found # None => now < InstantOf(EndOf(call.found))
        /\ \A i \in 1..Len(doc) :
               Truthy(is_over(doc[i], now)) <=> now >= InstantOf(EndOf(doc[i]))
        /\ (\A i \in 1..Len(doc) : InstantOf(EndOf(doc[i])) <= now)
               => event = None

\* the only event ends exactly now, matches, and is not selected
C2_Witness ==
    /\ UpdateDone
    /\ Len(doc) = 1
    /\ InstantOf(EndOf(doc[1])) = now
    /\ Truthy(is_matching(doc[1], search))
    /\ ~Truthy(is_all_day(doc[1]))
    /\ event = None

\* C3: with include_all_day false the event update selects starts at an
\* instant, never at a date; is_all_day is true iff DTSTART is a date
C3_NoAllDayUnlessIncluded ==
    UpdateDone =>
        /\ (~include_all_day /\ call.found # None) =>
               /\ call.found.DTSTART.t = "datetime"
               /\ DOMAIN event.start = {"dateTime"}
        /\ \A i \in 1..Len(doc) :
               Truthy(is_all_day(doc[i])) <=> doc[i].DTSTART.t = "date"

\* an all-day event that matches and is not over was passed over
C3_Witness ==
    /\ UpdateDone
    /\ ~include_all_day
    /\ Len(doc) = 2
    /\ doc[1].DTSTART.t = "date"
    /\ Truthy(is_matching(doc[1], search))
    /\ ~Truthy(is_over(doc[1], now))
    /\ call.found = doc[2]

\* C4: get_end_date returns DTEND when present (with or without DURATION),
\* else DTSTART + DURATION when present, else DTSTART + 1 day
C4_EndDatePrecedence ==
    call.fn = "get_end_date" =>
        LET o == doc[1]
        IN  /\ "DTEND" \in DOMAIN o => call.ret = o.DTEND
            /\ ("DTSTART" \in DOMAIN o /\ "DTEND" \notin DOMAIN o
                    /\ "DURATION" \in DOMAIN o) =>
                   call.ret = PyAdd(o.DTSTART, o.DURATION)
            /\ ("DTSTART" \in DOMAIN o /\ "DTEND" \notin DOMAIN o
                    /\ "DURATION" \notin DOMAIN o) =>
                   /\ call.ret.t = o.DTSTART.t
                   /\ InstantOf(call.ret) = InstantOf(o.DTSTART) + DAY

\* DTEND and DURATION both present, and they disagree
C4_Witness ==
    /\ call.fn = "get_end_date"
    /\ {"DTSTART", "DTEND", "DURATION"} \subseteq DOMAIN doc[1]
    /\ doc[1].DTEND # PyAdd(doc[1].DTSTART, doc[1].DURATION)
    /\ call.ret = doc[1].DTEND

\* the pattern matches a prefix of the text
PrefixMatches(p, text) ==
    \E n \in 0..Len(text.s) : n \in Ends(p, 1, text.s, 0)

\* C5: with a pattern set, is_matching is truthy iff the pattern matches a
\* prefix of at least one of SUMMARY, LOCATION, DESCRIPTION that is present
C5_MatchesAnyPresentField ==
    (call.fn = "is_matching" /\ call.outcome = "ok" /\ search # None) =>
        (Truthy(call.ret) <=>
            \E k \in TextKeys \cap DOMAIN doc[1] :
                PrefixMatches(search.s, doc[1][k]))

\* no SUMMARY, a LOCATION of which the pattern matches a proper prefix
C5_Witness ==
    /\ call.fn = "is_matching"
    /\ search # None
    /\ DOMAIN doc[1] = {"LOCATION"}
    /\ search.s # <<>>
    /\ search.s[1] \in Chars
    /\ Len(search.s) < Len(doc[1].LOCATION.s)
    /\ Len(doc[1].LOCATION.s) \notin Ends(search.s, 1, doc[1].LOCATION.s, 0)
    /\ Truthy(call.ret)

\* C6: with the pattern unset, empty or ".*", is_matching is true of every
\* event, one with none of the three text fields included
C6_DefaultPatternMatchesAll ==
    (call.fn = "is_matching"
        /\ search \in {None, Str(<<>>), Str(<<".", "*">>)}) =>
        Truthy(call.ret)

MissingStart == \E i \in 1..Len(doc) : "DTSTART" \notin DOMAIN doc[i]

\* C7: with an event without DTSTART in the list, update and
\* async_get_events end in an error, and update leaves self.event as it was
C7_MissingStartRaises ==
    (MissingStart /\ call.fn \in {"update", "async_get_events"}
        /\ call.outcome # "throttled") =>
        /\ call.outcome = "raised"
        /\ call.fn = "update" => event = call.before

\* update raised on such a list and an event stored before is still there
C7_Witness ==
    /\ MissingStart
    /\ call.fn = "update"
    /\ call.outcome = "raised"
    /\ call.before # None
    /\ event = call.before

\* C8: update with an invalid search pattern ends in an error, whatever
\* the list of events, the empty list included
C8_InvalidPatternRaises ==
    (call.fn = "update" /\ call.outcome # "throttled"
        /\ search # None /\ ~re_compile_ok(search.s)) =>
        call.outcome = "raised"

EntityFields == {"summary", "start", "end", "location", "description", "uid"}

Tagged(v) == DOMAIN v = {"dateTime"} \/ DOMAIN v = {"date"}

IsString(v) == "t" \in DOMAIN v /\ v.t = "str"

\* C10 as stated: the records of async_get_events and the event update
\* stores have the six fields, start and end tagged dateTime or date
C10_BothCarrySixFields ==
    /\ (UpdateDone /\ event # None) =>
           /\ DOMAIN event = EntityFields
           /\ Tagged(event.start) /\ Tagged(event.end)
    /\ (call.fn = "async_get_events" /\ call.outcome = "ok") =>
           \A i \in 1..Len(call.ret) :
               /\ DOMAIN call.ret[i] = EntityFields
               /\ Tagged(call.ret[i].start) /\ Tagged(call.ret[i].end)

\* C10, amended: a record of async_get_events has the six fields, uid the
\* UID or None, start and end ISO strings; the event update stores has the
\* five fields without uid, start and end tagged dateTime for a datetime
\* and date for a date
C10_FieldsOfEachOutput ==
    /\ (UpdateDone /\ event # None) =>
           /\ DOMAIN event = EntityFields \ {"uid"}
           /\ DOMAIN event.start =
                  (IF call.found.DTSTART.t = "datetime" THEN {"dateTime"}
                   ELSE {"date"})
           /\ DOMAIN event.end =
                  (IF EndOf(call.found).t = "datetime" THEN {"dateTime"}
                   ELSE {"date"})
    /\ (call.fn = "async_get_events" /\ call.outcome = "ok") =>
           /\ Len(call.ret) = Len(doc)
           /\ \A i \in 1..Len(call.ret) :
                  /\ DOMAIN call.ret[i] = EntityFields
                  /\ call.ret[i].uid = get(doc[i], "UID")
                  /\ IsString(call.ret[i].start)
                  /\ IsString(call.ret[i].end)

\* the list holds a record with a uid and one without
C10_Witness ==
    /\ call.fn = "async_get_events"
    /\ call.outcome = "ok"
    /\ \E i, j \in 1..Len(call.ret) :
           call.ret[i].uid = None /\ call.ret[j].uid # None

\* the id stored before the k-th call since async_setup
StoredBefore(k) == IF k = 1 THEN DEFAULT_START_ID ELSE returned[k - 1]

\* C11: after async_setup stored DEFAULT_START_ID, each call of
\* async_get_next_ping_id returns the stored id + 1, or DEFAULT_START_ID
\* when the stored id is MAX_PING_ID, and stores what it returns; the ids
\* stay within DEFAULT_START_ID..MAX_PING_ID and any
\* MAX_PING_ID - DEFAULT_START_ID + 1 consecutive calls return distinct ids
C11_PingIdsWrap ==
    ping_data # None =>
        /\ \A k \in 1..Len(returned) :
               /\ returned[k] = (IF StoredBefore(k) = MAX_PING_ID
                                 THEN DEFAULT_START_ID
                                 ELSE StoredBefore(k) + 1)
               /\ returned[k] \in DEFAULT_START_ID..MAX_PING_ID
        /\ ping_data.PING_ID = StoredBefore(Len(returned) + 1)
        /\ ping_data.PING_ID \in DEFAULT_START_ID..MAX_PING_ID
        /\ \A i, j \in 1..Len(returned) :
               (i < j /\ j - i < MAX_PING_ID - DEFAULT_START_ID + 1) =>
                   returned[i] # returned[j]

\* the ids have wrapped: MAX_PING_ID was returned and DEFAULT_START_ID after
\* it, and the id of the first call has come round again
C11_Witness ==
    /\ ping_data # None
    /\ \E k \in 2..Len(returned) :
           returned[k - 1] = MAX_PING_ID /\ returned[k] = DEFAULT_START_ID
    /\ \E k \in 2..Len(returned) : returned[k] = returned[1]

\* the entity's update returned
EntityUpdated == call.fn = "entity_update" /\ call.outcome = "ok"

\* C12: an entity update that finds data.event None sets _event to None and
\* leaves _offset_reached as it was; one that finds an event computes
\* _offset_reached anew from it
C12_PartialReset ==
    [][(call'.fn = "entity_update" /\ call'.outcome = "ok") =>
          IF event' = None
          THEN ent_event' = None /\ offset_reached' = offset_reached
          ELSE /\ ent_event' # None
               /\ offset_reached' = is_offset_reached(ent_event', now)]_vars

\* no event any more, and the offset of the event before still reached
C12_Witness ==
    /\ EntityUpdated
    /\ call.before # None
    /\ event = None
    /\ ent_event = None
    /\ offset_reached

====
